---- MODULE Spec2Model ----
(***************************************************************************)
(* Model of generate_data.py: the fetchers of the GitHub team, of the      *)
(* pending invitations and of the Groups.io member list, and the           *)
(* reconciliation done by sync_and_generate_data.                          *)
(*                                                                         *)
(* Strings are TLA+ strings drawn from a small alphabet; str.lower() and   *)
(* str.strip() are tables over that alphabet.  A creation time is the      *)
(* record of what the ISO string says (a day number and a second of the    *)
(* day, UTC), or a missing / malformed string.                             *)
(***************************************************************************)
EXTENDS Integers, Sequences, FiniteSets, TLC

VARIABLES
    pc,                  \* position in main() / sync_and_generate_data()
    now,                 \* get_pending_invitations: now (epoch seconds)
    gh_team_members,     \* main: set of lowercase logins
    pending_invitations, \* main: login -> [id, created_at, expired]
    groupsio_members,    \* main: the members_list handed to the sync
    fetch_failed,        \* some fetcher printed "Failed to fetch ..." and broke off
    members_data,        \* sync: email hash -> [github_id, is_in_team, invitation_sent]
    expected_gh_ids,     \* sync: set of lowercase GitHub ids
    visited,             \* sync: ids the "for gh_id in expected_gh_ids" loop has done
    invites_sent,
    skipped_pending,
    expired_resent,
    unauthorized_members,\* sync: list
    trace,               \* decisions and calls of the invite loop, in order
    data_json,           \* public/data.json: <<>> or <<members>>
    rerun,               \* TRUE in the second run of main() on the same remote data
    prev_plan            \* the decisions of the first run, kept for the second

vars == <<pc, now, gh_team_members, pending_invitations, groupsio_members,
          fetch_failed, members_data, expected_gh_ids, visited, invites_sent,
          skipped_pending, expired_resent, unauthorized_members, trace,
          data_json, rerun, prev_plan>>

----------------------------------------------------------------------------
(* Bounds of the model *)

\* pages the GitHub team-members endpoint serves
MaxTeamPages == 2
\* pages the GitHub invitations endpoint serves
MaxInvitePages == 2
\* pages Groups.io getmembers serves
MaxListPages == 2
\* oldest invitation age examined by the expiry specification, in whole days
MaxAgeDays == 8

----------------------------------------------------------------------------
(* Program constants *)

INVITATION_EXPIRY_DAYS == 7
\* timedelta.days counts whole days of 86400 seconds
SecondsPerDay == 86400
\* attempts fetch_groupsio_data makes per page
Attempts == 3
\* the col_id of the GitHub id in extra_member_data
GithubColId == 2
\* HTTP 200
StatusOk == 200
\* "no invitation id": None (or 0), falsy in cancel_github_invitation
NoId == 0

----------------------------------------------------------------------------
(* Strings *)

\* str.lower() on the strings of the model
Lower(s) ==
    CASE s = "Alice"    -> "alice"
      [] s = " C@X.com" -> " c@x.com"
      [] s = "C@X.com"  -> "c@x.com"
      [] OTHER          -> s

\* str.strip() on the strings of the model
Strip(s) ==
    CASE s = " bob "    -> "bob"
      [] s = "   "      -> ""
      [] s = " C@X.com" -> "C@X.com"
      [] s = " c@x.com" -> "c@x.com"
      [] OTHER          -> s

\* hashlib.sha256(email.encode('utf-8')).hexdigest(): an opaque key, one per email
Sha256(email) == <<"sha256", email>>

\* d[key] = val on a dict
Put(d, key, val) ==
    [x \in (DOMAIN d) \cup {key} |-> IF x = key THEN val ELSE d[x]]

EmptyDict == [x \in {} |-> x]

----------------------------------------------------------------------------
(* get_github_team_members *)

\* One page of the members endpoint; the Link header names a next page
\* exactly when the page is not the last one.
RECURSIVE TeamMembersFrom(_, _, _)
TeamMembersFrom(pages, k, members) ==
    IF k > Len(pages) THEN members
    ELSE IF pages[k].status # StatusOk THEN members
    ELSE TeamMembersFrom(pages, k + 1,
                         members \cup {Lower(u) : u \in pages[k].logins})

\* a page the loop requests answers with a status other than 200
PageFailed(pages) ==
    \E k \in 1..Len(pages) :
        /\ pages[k].status # StatusOk
        /\ \A j \in 1..(k - 1) : pages[j].status = StatusOk

----------------------------------------------------------------------------
(* get_pending_invitations *)

\* datetime.fromisoformat(created_at_str.replace("Z", "+00:00")):
\* the epoch second of a well-formed string, ValueError otherwise
ParseOk(created_at_str) == created_at_str.kind = "iso"
FromIsoFormat(created_at_str) ==
    created_at_str.day * SecondsPerDay + created_at_str.sec

\* (now - created_at).days: timedelta normalises to whole days (floor) plus
\* 0 <= seconds < 86400
TimedeltaDays(a, b) == (a - b) \div SecondsPerDay

\* mutant: "older than" in place of "at least as old as"
ExpiredStrict(n, created_at_str) ==
    IF created_at_str.kind = "missing" THEN FALSE
    ELSE IF ~ParseOk(created_at_str) THEN FALSE
    ELSE TimedeltaDays(n, FromIsoFormat(created_at_str)) > INVITATION_EXPIRY_DAYS

\* lines 89-95
Expired(n, created_at_str) ==
    IF created_at_str.kind = "missing" THEN FALSE
    ELSE IF ~ParseOk(created_at_str) THEN FALSE
    ELSE TimedeltaDays(n, FromIsoFormat(created_at_str)) >= INVITATION_EXPIRY_DAYS

\* lines 83-100, the invites of one page
RECURSIVE PendingFromInvites(_, _, _, _)
PendingFromInvites(invites, k, pending, n) ==
    IF k > Len(invites) THEN pending
    ELSE LET invite == invites[k] IN
         IF invite.login = "" THEN PendingFromInvites(invites, k + 1, pending, n)
         ELSE PendingFromInvites(invites, k + 1,
                  Put(pending, Lower(invite.login),
                      [id         |-> invite.id,
                       created_at |-> invite.created_at,
                       expired    |-> Expired(n, invite.created_at)]),
                  n)

\* lines 77-110
RECURSIVE PendingFrom(_, _, _, _)
PendingFrom(pages, k, pending, n) ==
    IF k > Len(pages) THEN pending
    ELSE IF pages[k].status # StatusOk THEN pending
    ELSE PendingFrom(pages, k + 1,
                     PendingFromInvites(pages[k].invites, 1, pending, n), n)

----------------------------------------------------------------------------
(* fetch_groupsio_data *)

\* a page whose three attempts all raise leaves data None
PageData(page) == IF page.fails >= Attempts THEN <<>> ELSE <<page.data>>

RECURSIVE GroupsioFrom(_, _, _)
GroupsioFrom(pages, k, members_list) ==
    IF k > Len(pages) THEN members_list
    ELSE IF PageData(pages[k]) = <<>> THEN members_list
    ELSE GroupsioFrom(pages, k + 1, members_list \o PageData(pages[k])[1])

----------------------------------------------------------------------------
(* sync_and_generate_data *)

\* lines 208-213: the text of the first extra_member_data item with col_id 2
RECURSIVE GithubIdOf(_, _)
GithubIdOf(extra, k) ==
    IF k > Len(extra) THEN ""
    ELSE IF extra[k].col_id = GithubColId THEN Strip(extra[k].text)
    ELSE GithubIdOf(extra, k + 1)

\* lines 220-225: the status first computed for a record
InitialStatus(github_id, team, pending) ==
    LET gh_id_lower == IF github_id # "" THEN Lower(github_id) ELSE "" IN
    [github_id       |-> github_id,
     is_in_team      |-> IF github_id # "" THEN gh_id_lower \in team ELSE FALSE,
     invitation_sent |-> IF github_id # "" THEN gh_id_lower \in DOMAIN pending
                         ELSE FALSE]

\* mutant: the id is added as written, not lowercased
ExpectedOfAsWritten(github_id) == IF github_id # "" THEN {github_id} ELSE {}

\* mutant: the id is added without the "if github_id" test
ExpectedOfUnguarded(github_id) == {Lower(github_id)}

\* lines 215-216: what a record adds to expected_gh_ids
ExpectedOf(github_id) == IF github_id # "" THEN {Lower(github_id)} ELSE {}

\* lines 203-225: the loop over members_list
RECURSIVE BuildFrom(_, _, _, _, _, _)
BuildFrom(members_list, k, md, expected, team, pending) ==
    IF k > Len(members_list) THEN [members_data |-> md, expected_gh_ids |-> expected]
    ELSE LET member    == members_list[k]
             email     == Strip(Lower(member.email))
             github_id == GithubIdOf(member.extra, 1)
         IN  IF email = ""
             THEN BuildFrom(members_list, k + 1, md, expected, team, pending)
             ELSE BuildFrom(members_list, k + 1,
                            Put(md, Sha256(email),
                                InitialStatus(github_id, team, pending)),
                            expected \cup ExpectedOf(github_id), team, pending)

\* mutant: the pending invitation is looked at before the team membership
DecidePendingFirst(gh_id, team, pending) ==
    IF gh_id \in DOMAIN pending
    THEN (IF pending[gh_id].expired THEN "resend" ELSE "pending")
    ELSE IF gh_id \in team THEN "member" ELSE "invite"

\* lines 235-250: the branch the loop body takes for gh_id
Decide(gh_id, team, pending) ==
    IF gh_id \in team THEN "member"
    ELSE IF gh_id \in DOMAIN pending
         THEN (IF pending[gh_id].expired THEN "resend" ELSE "pending")
         ELSE "invite"

\* lines 125-133: invite_to_github_team's result; status 0 stands for a raised exception
InviteOk(status) == status \in {200, 201}

\* lines 137-155: cancel_github_invitation's result
CancelOk(invitation_id, status) ==
    IF invitation_id = NoId THEN FALSE ELSE status = 204

\* mutant: the re-send overlay copies the new-invite overlay
MarkResentAsInvited(md, gh_id) ==
    [h \in DOMAIN md |->
        IF Lower(md[h].github_id) = gh_id
        THEN [md[h] EXCEPT !.is_in_team = TRUE, !.invitation_sent = TRUE]
        ELSE md[h]]

\* lines 244-246: the overlay after a re-sent invitation
MarkResent(md, gh_id) ==
    [h \in DOMAIN md |->
        IF Lower(md[h].github_id) = gh_id
        THEN [md[h] EXCEPT !.invitation_sent = TRUE]
        ELSE md[h]]

\* lines 252-255: the overlay after a new invitation
MarkInvited(md, gh_id) ==
    [h \in DOMAIN md |->
        IF Lower(md[h].github_id) = gh_id
        THEN [md[h] EXCEPT !.is_in_team = TRUE, !.invitation_sent = TRUE]
        ELSE md[h]]

\* lines 242-246: what a re-send does to the map and the counter
AfterResend(md, count, gh_id, invited) ==
    IF invited THEN [md |-> MarkResent(md, gh_id), count |-> count + 1]
    ELSE [md |-> md, count |-> count]

\* mutant: the result of invite_to_github_team is not tested
AfterInviteUnchecked(md, count, gh_id, invited) ==
    [md |-> [h \in DOMAIN md |->
                IF Lower(md[h].github_id) = gh_id
                THEN [md[h] EXCEPT !.is_in_team = TRUE, !.invitation_sent = TRUE]
                ELSE md[h]],
     count |-> count + 1]

\* lines 250-255: what a new invite does to the map and the counter
AfterInvite(md, count, gh_id, invited) ==
    IF invited THEN [md |-> MarkInvited(md, gh_id), count |-> count + 1]
    ELSE [md |-> md, count |-> count]

\* lines 259-261: the team members kept for the unauthorized list
IsUnauthorized(current_gh_id, expected) == current_gh_id \notin expected

\* the lists a loop over set S can build, one per iteration order
RECURSIVE Orders(_)
Orders(S) ==
    IF S = {} THEN {<<>>}
    ELSE UNION {{<<x>> \o rest : rest \in Orders(S \ {x})} : x \in S}

\* lines 258-261
UnauthorizedLists(team, expected) ==
    Orders({m \in team : IsUnauthorized(m, expected)})

----------------------------------------------------------------------------
(* What the remote services can answer *)

\* sequences of 1..n elements of S
SeqsUpTo(S, n) == UNION {[1..m -> S] : m \in 1..n}

\* a page of GET /orgs/{org}/teams/{team}/members
TeamPage ==
    {[status |-> 200, logins |-> {"Alice"}],
     [status |-> 200, logins |-> {"dave"}],
     [status |-> 200, logins |-> {}],
     [status |-> 502, logins |-> {}]}

Missing == [kind |-> "missing", day |-> 0, sec |-> 0]
Malformed == [kind |-> "bad", day |-> 0, sec |-> 0]
\* the ISO string of epoch second t
IsoOf(t) == [kind |-> "iso", day |-> t \div SecondsPerDay, sec |-> t % SecondsPerDay]

\* the clock of the main specification
Clock == 20 * SecondsPerDay + 3600
Week == INVITATION_EXPIRY_DAYS * SecondsPerDay

\* an invitation of GET /orgs/{org}/teams/{team}/invitations
Invitation ==
    {[login |-> "Alice", id |-> 41,   created_at |-> IsoOf(Clock - Week)],
     [login |-> "bob",   id |-> 42,   created_at |-> IsoOf(Clock - Week)],
     [login |-> "bob",   id |-> NoId, created_at |-> IsoOf(Clock - Week)],
     [login |-> "bob",   id |-> 43,   created_at |-> IsoOf(Clock - Week + 1)],
     [login |-> "",      id |-> 44,   created_at |-> IsoOf(Clock - Week)]}

InvitePage ==
    {[status |-> 200, invites |-> <<i>>] : i \in Invitation}
        \cup {[status |-> 200, invites |-> <<>>], [status |-> 502, invites |-> <<>>]}

\* a member of Groups.io getmembers
Member ==
    {[email |-> "   ",      extra |-> <<[col_id |-> 2, text |-> "alice"]>>],
     [email |-> "a@x.com",  extra |-> <<[col_id |-> 2, text |-> "Alice"]>>],
     [email |-> " C@X.com", extra |-> <<[col_id |-> 1, text |-> "x"],
                                        [col_id |-> 2, text |-> "alice"]>>],
     [email |-> "b@x.com",  extra |-> <<[col_id |-> 2, text |-> " bob "]>>],
     [email |-> "c@x.com",  extra |-> <<>>],
     [email |-> "a@x.com",  extra |-> <<[col_id |-> 2, text |-> "   "],
                                        [col_id |-> 2, text |-> "alice"]>>]}

\* a page of getmembers: the attempts that fail before one succeeds, and its data
ListPage ==
    {[fails |-> 0, data |-> <<m>>] : m \in Member}
        \cup {[fails |-> 2, data |-> <<>>], [fails |-> 3, data |-> <<>>]}

\* statuses of PUT memberships and DELETE invitations; 0: the request raised
InviteStatus == {200, 201, 404, 0}
CancelStatus == {204, 404, 0}

----------------------------------------------------------------------------
(* The specification of main() *)

Init ==
    /\ pc = "start"
    /\ now = 0
    /\ gh_team_members = {}
    /\ pending_invitations = EmptyDict
    /\ groupsio_members = <<>>
    /\ fetch_failed = FALSE
    /\ members_data = EmptyDict
    /\ expected_gh_ids = {}
    /\ visited = {}
    /\ invites_sent = 0
    /\ skipped_pending = 0
    /\ expired_resent = 0
    /\ unauthorized_members = <<>>
    /\ trace = <<>>
    /\ data_json = <<>>
    /\ rerun = FALSE
    /\ prev_plan = <<>>

syncVars == <<members_data, expected_gh_ids, visited, invites_sent,
              skipped_pending, expired_resent, unauthorized_members, trace,
              data_json>>
inputVars == <<now, gh_team_members, pending_invitations, groupsio_members>>

\* lines 280-289
CheckEnv ==
    /\ pc = "start"
    /\ \E have \in BOOLEAN : pc' = IF have THEN "team" ELSE "exit"
    /\ UNCHANGED <<inputVars, fetch_failed, syncVars, rerun, prev_plan>>

\* line 291
GetGithubTeamMembers ==
    /\ pc = "team"
    /\ \E pages \in SeqsUpTo(TeamPage, MaxTeamPages) :
        /\ gh_team_members' = TeamMembersFrom(pages, 1, {})
        /\ fetch_failed' = (fetch_failed \/ PageFailed(pages))
    /\ pc' = "pending"
    /\ UNCHANGED <<now, pending_invitations, groupsio_members, syncVars, rerun,
                   prev_plan>>

\* line 292, with the pages and the clock the caller's world offers
GetPendingInvitations(Pages, Clocks) ==
    /\ pc = "pending"
    /\ \E pages \in Pages, n \in Clocks :
        /\ now' = n
        /\ pending_invitations' = PendingFrom(pages, 1, EmptyDict, n)
        /\ fetch_failed' = (fetch_failed \/ PageFailed(pages))
    /\ pc' = "login"
    /\ UNCHANGED <<gh_team_members, groupsio_members, syncVars, rerun, prev_plan>>

\* line 293
GetAuthenticatedSession ==
    /\ pc = "login"
    /\ \E ok \in BOOLEAN : pc' = IF ok THEN "groupsio" ELSE "exit"
    /\ UNCHANGED <<inputVars, fetch_failed, syncVars, rerun, prev_plan>>

\* line 296
FetchGroupsioData ==
    /\ pc = "groupsio"
    /\ \E pages \in SeqsUpTo(ListPage, MaxListPages) :
        /\ groupsio_members' = GroupsioFrom(pages, 1, <<>>)
        /\ fetch_failed' =
              (fetch_failed \/ \E k \in 1..Len(pages) :
                                  /\ PageData(pages[k]) = <<>>
                                  /\ \A j \in 1..(k - 1) : PageData(pages[j]) # <<>>)
    /\ pc' = "sync"
    /\ UNCHANGED <<now, gh_team_members, pending_invitations, syncVars, rerun,
                   prev_plan>>

\* lines 199-232
SyncBuild ==
    /\ pc = "sync"
    /\ LET built == BuildFrom(groupsio_members, 1, EmptyDict, {},
                              gh_team_members, pending_invitations)
       IN  /\ members_data' = built.members_data
           /\ expected_gh_ids' = built.expected_gh_ids
    /\ visited' = {}
    /\ invites_sent' = 0
    /\ skipped_pending' = 0
    /\ expired_resent' = 0
    /\ pc' = "invite"
    /\ UNCHANGED <<inputVars, fetch_failed, unauthorized_members, trace, data_json,
                   rerun, prev_plan>>

Event(op, user, arg, ok) == [op |-> op, user |-> user, arg |-> arg, ok |-> ok]

\* lines 235-236
SkipMember(gh_id) ==
    /\ pc = "invite"
    /\ gh_id \in expected_gh_ids \ visited
    /\ Decide(gh_id, gh_team_members, pending_invitations) = "member"
    /\ visited' = visited \cup {gh_id}
    /\ trace' = Append(trace, Event("none_member", gh_id, NoId, TRUE))
    /\ UNCHANGED <<pc, inputVars, fetch_failed, members_data, expected_gh_ids,
                   invites_sent, skipped_pending, expired_resent,
                   unauthorized_members, data_json, rerun, prev_plan>>

\* lines 247-249
SkipPending(gh_id) ==
    /\ pc = "invite"
    /\ gh_id \in expected_gh_ids \ visited
    /\ Decide(gh_id, gh_team_members, pending_invitations) = "pending"
    /\ skipped_pending' = skipped_pending + 1
    /\ visited' = visited \cup {gh_id}
    /\ trace' = Append(trace, Event("none_pending", gh_id, NoId, TRUE))
    /\ UNCHANGED <<pc, inputVars, fetch_failed, members_data, expected_gh_ids,
                   invites_sent, expired_resent, unauthorized_members, data_json,
                   rerun, prev_plan>>

\* mutant: the invite is made only when the cancel succeeded
ResendOnlyIfCancelled(gh_id) ==
    /\ pc = "invite"
    /\ gh_id \in expected_gh_ids \ visited
    /\ Decide(gh_id, gh_team_members, pending_invitations) = "resend"
    /\ \E cs \in CancelStatus, is \in InviteStatus :
        LET invite_info == pending_invitations[gh_id]
            cancelled   == CancelOk(invite_info.id, cs)
            invited     == cancelled /\ InviteOk(is)
            after       == AfterResend(members_data, expired_resent, gh_id, invited)
        IN  /\ members_data' = after.md
            /\ expired_resent' = after.count
            /\ trace' = IF cancelled
                        THEN trace \o <<Event("cancel", gh_id, invite_info.id, TRUE),
                                        Event("invite", gh_id, NoId, InviteOk(is))>>
                        ELSE Append(trace, Event("cancel", gh_id, invite_info.id, FALSE))
    /\ visited' = visited \cup {gh_id}
    /\ UNCHANGED <<pc, inputVars, fetch_failed, expected_gh_ids, invites_sent,
                   skipped_pending, unauthorized_members, data_json, rerun,
                   prev_plan>>

\* lines 239-246 and 249
ResendExpired(gh_id) ==
    /\ pc = "invite"
    /\ gh_id \in expected_gh_ids \ visited
    /\ Decide(gh_id, gh_team_members, pending_invitations) = "resend"
    /\ \E cs \in CancelStatus, is \in InviteStatus :
        LET invite_info == pending_invitations[gh_id]
            cancelled   == CancelOk(invite_info.id, cs)
            after       == AfterResend(members_data, expired_resent, gh_id, InviteOk(is))
        IN  /\ members_data' = after.md
            /\ expired_resent' = after.count
            /\ trace' = trace \o <<Event("cancel", gh_id, invite_info.id, cancelled),
                                   Event("invite", gh_id, NoId, InviteOk(is))>>
    /\ visited' = visited \cup {gh_id}
    /\ UNCHANGED <<pc, inputVars, fetch_failed, expected_gh_ids, invites_sent,
                   skipped_pending, unauthorized_members, data_json, rerun,
                   prev_plan>>

\* lines 250-255
InviteNew(gh_id) ==
    /\ pc = "invite"
    /\ gh_id \in expected_gh_ids \ visited
    /\ Decide(gh_id, gh_team_members, pending_invitations) = "invite"
    /\ \E is \in InviteStatus :
        LET after == AfterInvite(members_data, invites_sent, gh_id, InviteOk(is))
        IN  /\ members_data' = after.md
            /\ invites_sent' = after.count
            /\ trace' = Append(trace, Event("invite", gh_id, NoId, InviteOk(is)))
    /\ visited' = visited \cup {gh_id}
    /\ UNCHANGED <<pc, inputVars, fetch_failed, expected_gh_ids, skipped_pending,
                   expired_resent, unauthorized_members, data_json, rerun,
                   prev_plan>>

\* lines 257-277
Audit ==
    /\ pc = "invite"
    /\ visited = expected_gh_ids
    /\ unauthorized_members' \in UnauthorizedLists(gh_team_members, expected_gh_ids)
    /\ pc' = "emit"
    /\ UNCHANGED <<inputVars, fetch_failed, members_data, expected_gh_ids, visited,
                   invites_sent, skipped_pending, expired_resent, trace, data_json,
                   rerun, prev_plan>>

\* lines 300-309
WriteOutput ==
    /\ pc = "emit"
    /\ data_json' = <<members_data>>
    /\ pc' = "done"
    /\ UNCHANGED <<inputVars, fetch_failed, members_data, expected_gh_ids, visited,
                   invites_sent, skipped_pending, expired_resent,
                   unauthorized_members, trace, rerun, prev_plan>>

\* the decisions of a run, without their outcomes
PlanOf(t) == [k \in 1..Len(t) |-> [op |-> t[k].op, user |-> t[k].user, arg |-> t[k].arg]]

\* lines 311-312: main() run once more, the services answering as before
Rerun ==
    /\ pc = "done"
    /\ ~rerun
    /\ rerun' = TRUE
    /\ prev_plan' = PlanOf(trace)
    /\ trace' = <<>>
    /\ unauthorized_members' = <<>>
    /\ pc' = "sync"
    /\ UNCHANGED <<inputVars, fetch_failed, members_data, expected_gh_ids, visited,
                   invites_sent, skipped_pending, expired_resent, data_json>>

Next ==
    \/ CheckEnv
    \/ GetGithubTeamMembers
    \/ GetPendingInvitations(SeqsUpTo(InvitePage, MaxInvitePages), {Clock})
    \/ GetAuthenticatedSession
    \/ FetchGroupsioData
    \/ SyncBuild
    \/ \E gh_id \in expected_gh_ids : SkipMember(gh_id)
    \/ \E gh_id \in expected_gh_ids : SkipPending(gh_id)
    \/ \E gh_id \in expected_gh_ids : ResendExpired(gh_id)
    \/ \E gh_id \in expected_gh_ids : InviteNew(gh_id)
    \/ Audit
    \/ WriteOutput

Spec == Init /\ [][Next]_vars

\* main() run, and then run once more on the same answers
NextRerun ==
    \/ Next
    \/ Rerun

SpecRerun == Init /\ [][NextRerun]_vars

----------------------------------------------------------------------------
(* The specification of get_pending_invitations alone, over invitation ages *)

ExpiryClock ==
    {10 * SecondsPerDay, 10 * SecondsPerDay + 1, 10 * SecondsPerDay + 43200,
     11 * SecondsPerDay - 1, 15 * SecondsPerDay + 7}

\* creation times from one day after a clock to MaxAgeDays before it, each
\* exact and one second either side
ExpiryCreated ==
    {IsoOf(c - d * SecondsPerDay + e) :
        c \in ExpiryClock, d \in (-1)..MaxAgeDays, e \in {-1, 0, 1}}
        \cup {Missing, Malformed}

ExpiryPage ==
    {<<[status |-> 200,
        invites |-> <<[login |-> "Bob", id |-> 42, created_at |-> c]>>]>> :
        c \in ExpiryCreated}

NextExpiry == GetPendingInvitations(ExpiryPage, ExpiryClock)

InitExpiry ==
    /\ pc = "pending" /\ now = 0 /\ gh_team_members = {}
    /\ pending_invitations = EmptyDict /\ groupsio_members = <<>>
    /\ fetch_failed = FALSE /\ members_data = EmptyDict /\ expected_gh_ids = {}
    /\ visited = {} /\ invites_sent = 0 /\ skipped_pending = 0
    /\ expired_resent = 0 /\ unauthorized_members = <<>> /\ trace = <<>>
    /\ data_json = <<>> /\ rerun = FALSE /\ prev_plan = <<>>

SpecExpiry == InitExpiry /\ [][NextExpiry]_vars

----------------------------------------------------------------------------
(* Vocabulary of the properties *)

\* sync_and_generate_data has returned
Finished == pc \in {"emit", "done"}

\* the operations the run performed for identity i, in order
OpsOf(i) ==
    LET mine == SelectSeq(trace, LAMBDA e : e.user = i)
    IN  [k \in 1..Len(mine) |-> mine[k].op]

\* an invite call for identity i returned True
InviteSucceeded(i) ==
    \E k \in 1..Len(trace) :
        trace[k].op = "invite" /\ trace[k].user = i /\ trace[k].ok

InviteFailed(i) ==
    \E k \in 1..Len(trace) :
        trace[k].op = "invite" /\ trace[k].user = i /\ ~trace[k].ok

\* the authorized records: positions of members_list with a non-empty address
Records ==
    {k \in 1..Len(groupsio_members) : Strip(Lower(groupsio_members[k].email)) # ""}
KeyOf(k) == Sha256(Strip(Lower(groupsio_members[k].email)))
IdentityOf(k) == GithubIdOf(groupsio_members[k].extra, 1)
\* the records whose StatusMap entry is theirs (no later record has their key)
LastRecords == {k \in Records : \A j \in Records : j > k => KeyOf(j) # KeyOf(k)}

\* the expected identities, as the data model defines them
ExpectedIdentities == {Lower(IdentityOf(k)) : k \in {r \in Records : IdentityOf(r) # ""}}

IsMember(i) == i \in gh_team_members
IsPending(i) == i \in DOMAIN pending_invitations
IsExpired(i) == IsPending(i) /\ pending_invitations[i].expired

----------------------------------------------------------------------------
(* Properties *)

\* C1: every distinct expected identity gets exactly one decision per run, by
\* the policy member -> nothing; pending and not expired -> nothing, counted
\* in skipped_pending; pending and expired -> one cancel then one invite;
\* otherwise one invite and no cancel.  Nothing is done for any other identity.
C1_OneDecisionPerIdentity ==
    Finished =>
        /\ \A i \in ExpectedIdentities :
              OpsOf(i) = IF IsMember(i) THEN <<"none_member">>
                         ELSE IF IsPending(i) /\ ~IsExpired(i) THEN <<"none_pending">>
                         ELSE IF IsExpired(i) THEN <<"cancel", "invite">>
                         ELSE <<"invite">>
        /\ \A k \in 1..Len(trace) : trace[k].user \in ExpectedIdentities
        /\ skipped_pending =
              Cardinality({i \in ExpectedIdentities :
                              ~IsMember(i) /\ IsPending(i) /\ ~IsExpired(i)})

\* C1 witness: alice, named by two records in two spellings, is not a member
\* and has an expired invitation; the run is over with one cancel and one
\* invite made for her.
C1_Witness ==
    /\ Finished
    /\ \E j, k \in Records :
          /\ IdentityOf(j) = "Alice" /\ IdentityOf(k) = "alice"
    /\ ~IsMember("alice") /\ IsExpired("alice")
    /\ OpsOf("alice") = <<"cancel", "invite">>

\* C2: at the end of the run a record with an identity shows invitation_sent
\* exactly when its identity has a pending invitation that is not expired, or
\* an invite for it succeeded in this run.
C2_InvitationPendingIff ==
    Finished =>
        \A k \in LastRecords :
            IdentityOf(k) # "" =>
                (members_data[KeyOf(k)].invitation_sent
                    <=> \/ (IsPending(Lower(IdentityOf(k)))
                              /\ ~IsExpired(Lower(IdentityOf(k))))
                        \/ InviteSucceeded(Lower(IdentityOf(k))))

\* C3: once a fetcher has failed, the engine does not run: no decision is
\* taken, no status map is built and none is written.
C3_FetchFailureAborts ==
    fetch_failed =>
        /\ pc \notin {"invite", "emit", "done"}
        /\ trace = <<>>
        /\ data_json = <<>>

\* C4: at the end of the run a record with an identity shows is_in_team
\* exactly when its identity was in the team at the start, or a plain invite
\* (identity neither in the team nor pending) succeeded; after such an invite
\* it shows invitation_sent too.
C4_InGroupIff ==
    Finished =>
        \A k \in LastRecords :
            IdentityOf(k) # "" =>
                LET i     == Lower(IdentityOf(k))
                    plain == ~IsMember(i) /\ ~IsPending(i) /\ InviteSucceeded(i)
                IN  /\ members_data[KeyOf(k)].is_in_team <=> (IsMember(i) \/ plain)
                    /\ plain => members_data[KeyOf(k)].invitation_sent

\* C4 witness: one record for alice, nobody in the team, nothing pending, the
\* invite succeeded, and the entry shows both flags.
C4_Witness ==
    /\ Finished
    /\ Len(groupsio_members) = 1 /\ groupsio_members[1].email = "a@x.com"
    /\ IdentityOf(1) = "Alice"
    /\ gh_team_members = {} /\ DOMAIN pending_invitations = {}
    /\ InviteSucceeded("alice")
    /\ members_data[KeyOf(1)].is_in_team /\ members_data[KeyOf(1)].invitation_sent

\* a step of the loop whose invite call returned False
FailedInviteStep ==
    /\ pc = "invite"
    /\ Len(trace') > Len(trace)
    /\ trace'[Len(trace')].op = "invite"
    /\ ~trace'[Len(trace')].ok

\* C5: a step whose invite fails leaves the status map and the counters
\* invites_sent and expired_resent as they were and stays in the loop; so at
\* the end the entries of an identity whose invite failed still hold what was
\* computed from the inputs.
C5_FailedInviteChangesNothing ==
    /\ [][FailedInviteStep =>
            /\ members_data' = members_data
            /\ invites_sent' = invites_sent
            /\ expired_resent' = expired_resent
            /\ pc' = "invite"]_vars
    /\ [](Finished =>
            \A k \in LastRecords :
                (IdentityOf(k) # "" /\ InviteFailed(Lower(IdentityOf(k)))) =>
                    /\ members_data[KeyOf(k)].is_in_team
                          = IsMember(Lower(IdentityOf(k)))
                    /\ members_data[KeyOf(k)].invitation_sent
                          = IsPending(Lower(IdentityOf(k))))

\* C5 witness: the invite for one identity failed, the loop went on to the
\* other identity, and the run finished with no invite counted.
C5_Witness ==
    /\ Finished
    /\ \E i, j \in ExpectedIdentities :
          /\ i # j /\ InviteFailed(i)
          /\ \E a, b \in 1..Len(trace) :
                a < b /\ trace[a].user = i /\ trace[a].op = "invite" /\ trace[b].user = j
    /\ invites_sent = 0 /\ expired_resent = 0

\* the identities the re-send branch is for
ToResend == {i \in ExpectedIdentities : ~IsMember(i) /\ IsExpired(i)}

\* C6: for an identity with an expired invitation that is not a member, the
\* invite follows the cancel whatever the cancel returned; expired_resent
\* counts exactly the identities whose invite succeeded; and after a
\* successful invite every record of the identity shows invitation_sent.
C6_ResendIndependentOfCancel ==
    Finished =>
        /\ \A i \in ToResend : OpsOf(i) = <<"cancel", "invite">>
        /\ expired_resent = Cardinality({i \in ToResend : InviteSucceeded(i)})
        /\ \A k \in LastRecords :
              (IdentityOf(k) # "" /\ Lower(IdentityOf(k)) \in ToResend
                  /\ InviteSucceeded(Lower(IdentityOf(k))))
                  => members_data[KeyOf(k)].invitation_sent

\* C6 witness: the cancel failed, the invite succeeded, expired_resent is 1.
C6_Witness ==
    /\ Finished
    /\ \E k \in 1..Len(trace) :
          /\ trace[k].op = "cancel" /\ ~trace[k].ok /\ trace[k].arg # NoId
          /\ trace[k].user \in ToResend /\ InviteSucceeded(trace[k].user)
    /\ expired_resent = 1

\* C7: expired is true exactly when the creation time is well-formed and
\* now - created is at least 7 days, to the second; a missing or malformed
\* creation time, or one in the future, is not expired.
C7_ExpiredIffSevenDays ==
    \A login \in DOMAIN pending_invitations :
        LET c == pending_invitations[login].created_at IN
        pending_invitations[login].expired
            <=> /\ c.kind = "iso"
                /\ now - (c.day * 86400 + c.sec) >= 7 * 86400

\* C7 witness: an invitation created exactly seven days before now, expired.
C7_Witness ==
    \E login \in DOMAIN pending_invitations :
        LET c == pending_invitations[login].created_at IN
        /\ c.kind = "iso"
        /\ now - (c.day * 86400 + c.sec) = 7 * 86400
        /\ pending_invitations[login].expired

\* C8: the unauthorized list holds exactly the team members that are not
\* expected identities, each once, whatever is pending and whatever the
\* invites and cancels returned.
C8_UnauthorizedIsDifference ==
    Finished =>
        /\ {unauthorized_members[k] : k \in 1..Len(unauthorized_members)}
              = gh_team_members \ ExpectedIdentities
        /\ Len(unauthorized_members)
              = Cardinality(gh_team_members \ ExpectedIdentities)

\* C8 witness: alice (expected, spelled Alice) and dave are in the team, an
\* invitation is pending and an invite was made; dave alone is reported.
C8_Witness ==
    /\ Finished
    /\ gh_team_members = {"alice", "dave"}
    /\ "alice" \in ExpectedIdentities
    /\ DOMAIN pending_invitations # {}
    /\ \E k \in 1..Len(trace) : trace[k].op = "invite"
    /\ unauthorized_members = <<"dave">>

\* C9: the second run on the same inputs takes the same decisions for the
\* same identities in the same order as the first.
C9_SamePlanSameOrder ==
    (rerun /\ Finished) => PlanOf(trace) = prev_plan

\* C10: a record without identity adds nothing to the expected identities,
\* and its entry is {"", False, False} once built and up to the end.
C10_NoIdentityStaysBlank ==
    pc \in {"invite", "emit", "done"} =>
        /\ expected_gh_ids = ExpectedIdentities
        /\ "" \notin expected_gh_ids
        /\ \A k \in LastRecords :
              IdentityOf(k) = "" =>
                  members_data[KeyOf(k)]
                      = [github_id |-> "", is_in_team |-> FALSE,
                         invitation_sent |-> FALSE]

\* C10 witness: a record without identity beside a record whose invite
\* succeeded, at the end of the run.
C10_Witness ==
    /\ Finished
    /\ \E k \in LastRecords : IdentityOf(k) = ""
    /\ \E i \in ExpectedIdentities : InviteSucceeded(i) /\ ~IsPending(i)

====
